---- MODULE Spec2Model ----
(***************************************************************************)
(* Model of nequip/model/saved_models/load_utils.py: the resolution of a   *)
(* model reference (local path, URL, nequip.net identifier) to a file by   *)
(* _get_model_file_path / _download_to_file and the loader dispatch of     *)
(* load_saved_model.  Strings are sequences of one-character strings,      *)
(* paths are parsed as pathlib does, the disk is a map from path strings   *)
(* to byte contents.                                                       *)
(***************************************************************************)
EXTENDS Integers, Sequences, FiniteSets, TLC

VARIABLES input_path, pc, fs, fs0, tmpfile, model_info, response, body, pbar,
          actual_input_path, use_ckpt, persistent_only, model, data, result,
          error, log, args

vars == <<input_path, pc, fs, fs0, tmpfile, model_info, response, body, pbar,
          actual_input_path, use_ckpt, persistent_only, model, data, result,
          error, log, args>>

(* ------------------------------ bounds --------------------------------- *)
MaxStem == 1
MaxChunks == 2

(* ------------------------------ strings -------------------------------- *)
HTTP == <<"h", "t", "t", "p", ":", "/", "/">>
HTTPS == <<"h", "t", "t", "p", "s", ":", "/", "/">>
NEQUIP_NET == <<"n", "e", "q", "u", "i", "p", ".", "n", "e", "t", ":">>
PACKAGE_SUFFIX == <<".", "n", "e", "q", "u", "i", "p", ".", "z", "i", "p">>

StartsWith(s, p) == Len(s) >= Len(p) /\ SubSeq(s, 1, Len(p)) = p

EndsWith(s, p) == Len(s) >= Len(p) /\ SubSeq(s, Len(s) - Len(p) + 1, Len(s)) = p

Contains(s, p) == \E i \in 1..(Len(s) + 1) :
                     i + Len(p) - 1 <= Len(s) /\ SubSeq(s, i, i + Len(p) - 1) = p

BoundedSeq(S, n) == UNION {[1..k -> S] : k \in 0..n}

(* ------------------------------ pathlib -------------------------------- *)
RECURSIVE SplitSlash(_, _, _)
SplitSlash(s, cur, acc) ==
    IF s = <<>> THEN Append(acc, cur)
    ELSE IF Head(s) = "/" THEN SplitSlash(Tail(s), <<>>, Append(acc, cur))
    ELSE SplitSlash(Tail(s), Append(cur, Head(s)), acc)

IsNamePart(c) == c # <<>> /\ c # <<".">>

PathRoot(s) ==
    IF ~StartsWith(s, <<"/">>) THEN <<>>
    ELSE IF StartsWith(s, <<"/", "/">>) /\ ~StartsWith(s, <<"/", "/", "/">>)
         THEN <<"/", "/">>
    ELSE <<"/">>

\* pathlib.Path(s): the root and the name components, with empty and "."
\* components dropped
Path(s) == [root |-> PathRoot(s),
            parts |-> SelectSeq(SplitSlash(s, <<>>, <<>>), IsNamePart)]

RECURSIVE JoinSlash(_)
JoinSlash(parts) ==
    IF parts = <<>> THEN <<>>
    ELSE IF Len(parts) = 1 THEN Head(parts)
    ELSE Head(parts) \o <<"/">> \o JoinSlash(Tail(parts))

\* str(path)
Str(p) == IF p.root = <<>> /\ p.parts = <<>> THEN <<".">>
          ELSE p.root \o JoinSlash(p.parts)

NoPath == [root |-> <<>>, parts |-> <<>>]

\* pathlib.Path.exists()
Exists(p, disk) == Str(p) \in DOMAIN disk

(* --------------------------- classification ---------------------------- *)
is_nequip_net_download(input_str) == StartsWith(input_str, NEQUIP_NET)

is_url_download(input_str) ==
    StartsWith(input_str, HTTP) \/ StartsWith(input_str, HTTPS)

needs_download_always(input_str) == TRUE

needs_download(input_str) ==
    is_nequip_net_download(input_str) \/ is_url_download(input_str)

(* ------------------------------- inputs -------------------------------- *)
Prefixes == { <<>>, HTTP, HTTPS, NEQUIP_NET,
              <<"h", "t", "t", "p", ":", "/">>,
              <<"H", "T", "T", "P", ":", "/", "/">>,
              <<"n", "e", "q", "u", "i", "p", ".", "n", "e", "t">> }

Extensions == { <<>>, PACKAGE_SUFFIX, <<".", "z", "i", "p">>, <<".", "p", "t">> }

Tails == { <<>>, <<"/">> }

Inputs == { p \o s \o e \o t : p \in Prefixes,
                              s \in BoundedSeq({"m", "/", "."}, MaxStem),
                              e \in Extensions, t \in Tails }

Contents == { <<>>, <<1>> }

(* --------------------------- python values ----------------------------- *)
\* the builtin and requests exception hierarchy (class -> base class)
BaseOf(c) ==
    CASE c = "FileNotFoundError" -> "OSError"
      [] c = "HTTPError" -> "RequestException"
      [] c = "ConnectionError" -> "RequestException"
      [] c = "ChunkedEncodingError" -> "RequestException"
      [] c = "RequestException" -> "OSError"
      [] c = "OSError" -> "Exception"
      [] c = "ValueError" -> "Exception"
      [] c = "KeyError" -> "LookupError"
      [] c = "LookupError" -> "Exception"
      [] c = "RuntimeError" -> "Exception"
      [] OTHER -> "BaseException"

RECURSIVE IsSubclass(_, _)
IsSubclass(c, base) ==
    IF c = base THEN TRUE
    ELSE IF c = "BaseException" \/ c = "" THEN FALSE
    ELSE IsSubclass(BaseOf(c), base)

NoError == [class |-> "", at |-> "", msg |-> <<>>]

NoTmp == [created |-> FALSE, open |-> FALSE, name |-> <<>>, buf |-> <<>>]

NoInfo == [valid |-> FALSE, download_url |-> <<>>, host_name |-> "",
           newer_version_id |-> ""]

NoResponse == [valid |-> FALSE, url |-> <<>>, status |-> 0]

NoPbar == [open |-> FALSE, total |-> 0, n |-> 0]

NoModel == [kind |-> "none", loader |-> "", keys |-> {}, key |-> ""]

NoData == [format |-> "", path |-> <<>>]

NoResult == [kind |-> "none", model |-> NoModel, data |-> NoData]

Ev(op, arg, opt) == [op |-> op, arg |-> arg, opt |-> opt]

Ops(l) == {l[i].op : i \in DOMAIN l}

Count(l, op) == Cardinality({i \in DOMAIN l : l[i].op = op})

Index(l, op) == CHOOSE i \in DOMAIN l : l[i].op = op

(* ---------------------------- environment ------------------------------ *)
CompileModes == {"eager", "compile"}

ModelKeys == {"sole_model", "other"}

Args == [compile_mode : CompileModes, model_key : ModelKeys,
         return_data_dict : BOOLEAN]

RandomNames == {"a"}

DownloadUrls == { HTTPS \o <<"a">> \o PACKAGE_SUFFIX,
                  HTTP \o <<"b", ".", "p", "t">> }

ModelInfos ==
    { [valid |-> TRUE, download_url |-> u, host_name |-> "host",
       newer_version_id |-> IF EndsWith(u, PACKAGE_SUFFIX) THEN "" ELSE "0.2"] :
      u \in DownloadUrls }

Statuses == {200, 304, 404, 503}

\* Content-Length header values; <<>> stands for an absent header
ContentLengths == { <<>>, <<"0">>, <<"2">>, <<"x">> }

\* the chunks iter_content may deliver: an empty one, a non-empty one
Chunks == { <<>>, <<0, 1>> }

Digit(c) == CASE c = "0" -> 0 [] c = "1" -> 1 [] c = "2" -> 2
              [] c = "3" -> 3 [] c = "4" -> 4 [] c = "5" -> 5
              [] c = "6" -> 6 [] c = "7" -> 7 [] c = "8" -> 8
              [] c = "9" -> 9 [] OTHER -> -1

IsInt(s) == s # <<>> /\ \A i \in DOMAIN s : Digit(s[i]) >= 0

RECURSIVE int(_)
int(s) == IF s = <<>> THEN 0 ELSE 10 * int(SubSeq(s, 1, Len(s) - 1)) + Digit(s[Len(s)])

RECURSIVE Flatten(_)
Flatten(chunks) == IF chunks = <<>> THEN <<>> ELSE Head(chunks) \o Flatten(Tail(chunks))

RECURSIVE SumLen(_)
SumLen(chunks) == IF chunks = <<>> THEN 0 ELSE Len(Head(chunks)) + SumLen(Tail(chunks))

(* ------------------------- temporary file ------------------------------ *)
TmpSuffixZip == <<".", "z", "i", "p">>

\* the suffix= argument of tempfile.NamedTemporaryFile
TmpSuffix == <<".", "n", "e", "q", "u", "i", "p", ".", "z", "i", "p">>

\* tempfile.NamedTemporaryFile(suffix=...).name: directory, "tmp", random
\* characters, suffix
TmpName(r) == <<"/", "t", "m", "p", "/", "t", "m", "p", r>> \o TmpSuffix

\* tmpfile.write(chunk): the bytes go to the buffer of the file object, which
\* the io layer may write out at once (through) or keep
Write(t, disk, chunk, through) ==
    IF through
    THEN [tmp |-> [t EXCEPT !.buf = <<>>],
          disk |-> [disk EXCEPT ![t.name] = @ \o t.buf \o chunk]]
    ELSE [tmp |-> [t EXCEPT !.buf = @ \o chunk], disk |-> disk]

FlushNothing(t, disk) == [tmp |-> t, disk |-> disk]

\* tmpfile.flush()
Flush(t, disk) ==
    [tmp |-> [t EXCEPT !.buf = <<>>],
     disk |-> [disk EXCEPT ![t.name] = @ \o t.buf]]

CloseKeep(t, disk) ==
    IF t.created /\ t.open THEN [tmp |-> [t EXCEPT !.open = FALSE, !.buf = <<>>], disk |-> disk]
    ELSE [tmp |-> t, disk |-> disk]

\* leaving `with tempfile.NamedTemporaryFile(...)` closes the file, which
\* deletes it; leaving contextlib.nullcontext() does nothing
Close(t, disk) ==
    IF t.created /\ t.open
    THEN [tmp |-> [t EXCEPT !.open = FALSE, !.buf = <<>>],
          disk |-> [q \in DOMAIN disk \ {t.name} |-> disk[q]]]
    ELSE [tmp |-> t, disk |-> disk]

(* ------------------------------ helpers -------------------------------- *)
RaiseForStatus5xx(status) == 500 <= status /\ status < 600

\* requests.Response.raise_for_status() raises HTTPError for 4xx and 5xx
RaiseForStatus(status) == 400 <= status /\ status < 600

DownloadUrlInput(info, input_str) == input_str

\* the URL the registry branch hands to _download_to_file
DownloadUrl(info, input_str) == info.download_url

MissingFileErrorNoInput(input, resolved) ==
    [class |-> "ValueError", at |-> "exists",
     msg |-> <<"Model file does not exist: ">> \o <<" (resolved to: ">> \o Str(resolved) \o <<")">>]

\* raise ValueError(f"Model file does not exist: {input_path} (resolved to: {actual_input_path})")
MissingFileError(input, resolved) ==
    [class |-> "ValueError", at |-> "exists",
     msg |-> <<"Model file does not exist: ">> \o input
             \o <<" (resolved to: ">> \o Str(resolved) \o <<")">>]

UseCkptZip(p) == ~EndsWith(Str(p), <<".", "z", "i", "p">>)

\* use_ckpt = not str(actual_input_path).endswith(".nequip.zip")
UseCkpt(p) == ~EndsWith(Str(p), PACKAGE_SUFFIX)

PersistentOnlyOff == FALSE

\* the argument of only_apply_persistent_modifiers(persistent_only=True)
PersistentOnlyArg == TRUE

ExtractorSwapped(ckpt) == IF ckpt THEN "package" ELSE "checkpoint"

\* data_dict_from_checkpoint if use_ckpt else data_dict_from_package
Extractor(ckpt) == IF ckpt THEN "checkpoint" ELSE "package"

\* only_apply_persistent_modifiers.__enter__: the override takes the given
\* value for the extent of the block
EnterOverride(stack, arg) == Append(stack, arg)

\* only_apply_persistent_modifiers.__exit__: the previous value is restored
LeaveOverride(stack) == SubSeq(stack, 1, Len(stack) - 1)

\* whether only persistent modifiers are applied at this point
PersistentOnly(stack) == stack # <<>> /\ stack[Len(stack)]

(* ------------------------------- state --------------------------------- *)
input_str == input_path

\* the disk before the call: empty, or holding the file a local input names
InitFs(input) ==
    IF is_nequip_net_download(input) \/ is_url_download(input)
    THEN { <<>> }
    ELSE { <<>> } \cup { Str(Path(input)) :> c : c \in Contents }

Init ==
    /\ input_path \in Inputs
    /\ args \in Args
    /\ fs \in InitFs(input_path)
    /\ fs0 = fs
    /\ pc = "start"
    /\ tmpfile = NoTmp
    /\ model_info = NoInfo
    /\ response = NoResponse
    /\ body = <<>>
    /\ pbar = NoPbar
    /\ actual_input_path = NoPath
    /\ use_ckpt = FALSE
    /\ persistent_only = <<>>
    /\ model = NoModel
    /\ data = NoData
    /\ result = NoResult
    /\ error = NoError
    /\ log = <<>>

\* an exception leaves the current position for the exit of the scope
Raise(class, at) ==
    /\ error' = [class |-> class, at |-> at, msg |-> <<>>]
    /\ pc' = "unwind"

(* ----------------------- _get_model_file_path -------------------------- *)
\* lines 60-69: classification and acquisition of the temporary file
Enter ==
    /\ pc = "start"
    /\ IF needs_download(input_str)
       THEN \E r \in RandomNames :
              /\ TmpName(r) \notin DOMAIN fs
              /\ tmpfile' = [created |-> TRUE, open |-> TRUE,
                             name |-> TmpName(r), buf |-> <<>>]
              /\ fs' = (TmpName(r) :> <<>>) @@ fs
       ELSE /\ tmpfile' = NoTmp
            /\ fs' = fs
    /\ pc' = IF is_nequip_net_download(input_str) THEN "lookup"
             ELSE IF is_url_download(input_str) THEN "get"
             ELSE "yield"
    /\ log' = Append(log, Ev("enter", input_str, ""))
    /\ UNCHANGED <<input_path, args, fs0, model_info, response, body, pbar,
                   actual_input_path, use_ckpt, persistent_only, model, data,
                   result, error>>

\* lines 71-79: the registry lookup
Lookup ==
    /\ pc = "lookup"
    /\ log' = Append(log, Ev("lookup", SubSeq(input_str, Len(NEQUIP_NET) + 1, Len(input_str)), ""))
    /\ \/ /\ Raise("RuntimeError", "lookup")
          /\ UNCHANGED model_info
       \/ /\ model_info' \in ModelInfos
          /\ pc' = "get"
          /\ UNCHANGED error
    /\ UNCHANGED <<input_path, args, fs, fs0, tmpfile, response, body, pbar,
                   actual_input_path, use_ckpt, persistent_only, model, data,
                   result>>

\* _download_to_file lines 23-33: the request, its status, the progress bar
Get ==
    /\ pc = "get"
    /\ LET url == IF is_nequip_net_download(input_str)
                  THEN DownloadUrl(model_info, input_str)
                  ELSE input_str
       IN /\ log' = Append(log, Ev("get", url, ""))
          /\ \/ /\ Raise("ConnectionError", "get")
                /\ UNCHANGED <<response, pbar>>
             \/ \E status \in Statuses, cl \in ContentLengths :
                  /\ response' = [valid |-> TRUE, url |-> url, status |-> status]
                  /\ IF RaiseForStatus(status)
                     THEN Raise("HTTPError", "raise_for_status") /\ UNCHANGED pbar
                     ELSE IF cl # <<>> /\ ~IsInt(cl)
                     THEN Raise("ValueError", "content_length") /\ UNCHANGED pbar
                     ELSE /\ pbar' = [open |-> TRUE, n |-> 0,
                                      total |-> IF cl = <<>> THEN 0 ELSE int(cl)]
                          /\ pc' = "chunks"
                          /\ UNCHANGED error
    /\ UNCHANGED <<input_path, args, fs, fs0, tmpfile, model_info, body,
                   actual_input_path, use_ckpt, persistent_only, model, data,
                   result>>

\* _download_to_file lines 34-37: one iteration of the loop over the chunks
Chunk ==
    /\ pc = "chunks"
    /\ Len(body) < MaxChunks
    /\ \E chunk \in Chunks :
         /\ body' = Append(body, chunk)
         /\ IF chunk # <<>>
            THEN \E through \in BOOLEAN :
                   /\ tmpfile' = Write(tmpfile, fs, chunk, through).tmp
                   /\ fs' = Write(tmpfile, fs, chunk, through).disk
                   /\ pbar' = [pbar EXCEPT !.n = @ + Len(chunk)]
                   /\ log' = Append(log, Ev("write", chunk, ""))
            ELSE UNCHANGED <<tmpfile, fs, pbar, log>>
    /\ UNCHANGED <<input_path, args, fs0, pc, model_info, response,
                   actual_input_path, use_ckpt, persistent_only, model, data,
                   result, error>>

\* the response stream breaks inside iter_content
ChunkError ==
    /\ pc = "chunks"
    /\ Raise("ChunkedEncodingError", "iter_content")
    /\ pbar' = [pbar EXCEPT !.open = FALSE]
    /\ UNCHANGED <<input_path, args, fs, fs0, tmpfile, model_info, response, body,
                   actual_input_path, use_ckpt, persistent_only, model, data,
                   result, log>>

\* the loop ends with the response body; the progress bar is closed
EndOfBody ==
    /\ pc = "chunks"
    /\ pbar' = [pbar EXCEPT !.open = FALSE]
    /\ pc' = "flush"
    /\ UNCHANGED <<input_path, args, fs, fs0, tmpfile, model_info, response, body,
                   actual_input_path, use_ckpt, persistent_only, model, data,
                   result, error, log>>

\* _download_to_file lines 38-40
FlushFile ==
    /\ pc = "flush"
    /\ tmpfile' = Flush(tmpfile, fs).tmp
    /\ fs' = Flush(tmpfile, fs).disk
    /\ response' = NoResponse
    /\ pbar' = NoPbar
    /\ log' = Append(log, Ev("flush", <<>>, ""))
    /\ pc' = "yield"
    /\ UNCHANGED <<input_path, args, fs0, model_info, body,
                   actual_input_path, use_ckpt, persistent_only, model, data,
                   result, error>>

\* lines 87, 95, 98: the path handed to the body of the with statement
Yield ==
    /\ pc = "yield"
    /\ actual_input_path' = IF is_nequip_net_download(input_str)
                               \/ is_url_download(input_str)
                            THEN Path(tmpfile.name)
                            ELSE Path(input_path)
    /\ log' = Append(log, Ev("yield", Str(actual_input_path'), ""))
    /\ pc' = "exists"
    /\ UNCHANGED <<input_path, args, fs, fs0, tmpfile, model_info, response, body,
                   pbar, use_ckpt, persistent_only, model, data, result, error>>

(* -------------------------- load_saved_model --------------------------- *)
\* lines 125-131: the existence check and the choice of the loader
ExistsCheck ==
    /\ pc = "exists"
    /\ log' = Append(log, Ev("exists", Str(actual_input_path), ""))
    /\ IF ~Exists(actual_input_path, fs)
       THEN /\ error' = MissingFileError(input_path, actual_input_path)
            /\ pc' = "unwind"
            /\ UNCHANGED use_ckpt
       ELSE /\ use_ckpt' = UseCkpt(actual_input_path)
            /\ pc' = IF use_ckpt' THEN "override" ELSE "package"
            /\ UNCHANGED error
    /\ UNCHANGED <<input_path, args, fs, fs0, tmpfile, model_info, response, body,
                   pbar, actual_input_path, persistent_only, model, data,
                   result>>

\* line 137: entering the persistent-modifiers-only block
Override ==
    /\ pc = "override"
    /\ persistent_only' = EnterOverride(persistent_only, PersistentOnlyArg)
    /\ log' = Append(log, Ev("override", <<>>, ""))
    /\ pc' = "checkpoint"
    /\ UNCHANGED <<input_path, args, fs, fs0, tmpfile, model_info, response, body,
                   pbar, actual_input_path, use_ckpt, model, data, result,
                   error>>

\* a loader returns a ModuleDict or raises
Loaded(name, next) ==
    /\ log' = Append(log, Ev(name, Str(actual_input_path), args.compile_mode))
    /\ \/ /\ error' = [class |-> "RuntimeError", at |-> name, msg |-> <<>>]
          /\ UNCHANGED model
       \/ \E keys \in {{"sole_model"}, {"sole_model", "other"}} :
            /\ model' = [kind |-> "ModuleDict", loader |-> name,
                         keys |-> keys, key |-> ""]
            /\ UNCHANGED error
    /\ pc' = IF error'.class # "" THEN "unwind" ELSE next

\* lines 138-140: ModelFromCheckpoint, and the end of the block with it
Checkpoint ==
    /\ pc = "checkpoint"
    /\ Loaded("ModelFromCheckpoint", "select")
    /\ persistent_only' = LeaveOverride(persistent_only)
    /\ UNCHANGED <<input_path, args, fs, fs0, tmpfile, model_info, response, body,
                   pbar, actual_input_path, use_ckpt, data, result>>

\* line 143: ModelFromPackage
Package ==
    /\ pc = "package"
    /\ Loaded("ModelFromPackage", "select")
    /\ UNCHANGED <<input_path, args, fs, fs0, tmpfile, model_info, response, body,
                   pbar, actual_input_path, use_ckpt, persistent_only, data,
                   result>>

\* line 145: model = model[model_key]
Select ==
    /\ pc = "select"
    /\ log' = Append(log, Ev("select", <<>>, args.model_key))
    /\ IF args.model_key \in model.keys
       THEN /\ model' = [model EXCEPT !.kind = "GraphModel", !.key = args.model_key]
            /\ pc' = "data"
            /\ UNCHANGED error
       ELSE /\ Raise("KeyError", "select")
            /\ UNCHANGED model
    /\ UNCHANGED <<input_path, args, fs, fs0, tmpfile, model_info, response, body,
                   pbar, actual_input_path, use_ckpt, persistent_only, data,
                   result>>

\* lines 149-160: the optional data dict and the return value
DataDict ==
    /\ pc = "data"
    /\ IF args.return_data_dict
       THEN /\ log' = Append(log, Ev("data_dict", Str(actual_input_path), Extractor(use_ckpt)))
            /\ \/ /\ Raise("RuntimeError", "data_dict")
                  /\ UNCHANGED <<data, result>>
               \/ /\ data' = [format |-> Extractor(use_ckpt),
                               path |-> Str(actual_input_path)]
                  /\ result' = [kind |-> "pair", model |-> model, data |-> data']
                  /\ pc' = "exit"
                  /\ UNCHANGED error
       ELSE /\ result' = [kind |-> "model", model |-> model, data |-> NoData]
            /\ pc' = "exit"
            /\ UNCHANGED <<data, error, log>>
    /\ UNCHANGED <<input_path, args, fs, fs0, tmpfile, model_info, response, body,
                   pbar, actual_input_path, use_ckpt, persistent_only, model>>

\* the with statement of line 123 is left, by return or by an exception: the
\* generator is resumed (line 88 on a return) and the block of lines 65-69
\* is left
ExitScope ==
    /\ pc \in {"exit", "unwind"}
    /\ model_info' = IF pc = "exit" THEN NoInfo ELSE model_info
    /\ tmpfile' = Close(tmpfile, fs).tmp
    /\ fs' = Close(tmpfile, fs).disk
    /\ log' = Append(log, Ev("exit", <<>>, ""))
    /\ pc' = IF pc = "exit" THEN "returned" ELSE "raised"
    /\ UNCHANGED <<input_path, args, fs0, response, body, pbar,
                   actual_input_path, use_ckpt, persistent_only, model, data,
                   result, error>>

Next ==
    \/ Enter \/ Lookup \/ Get \/ Chunk \/ ChunkError \/ EndOfBody \/ FlushFile
    \/ Yield \/ ExistsCheck \/ Override \/ Checkpoint \/ Package \/ Select
    \/ DataDict \/ ExitScope

Spec == Init /\ [][Next]_vars

TypeOK ==
    /\ pc \in {"start", "lookup", "get", "chunks", "flush", "yield", "exists",
               "override", "checkpoint", "package", "select", "data", "exit",
               "unwind", "returned", "raised"}
    /\ args \in Args
    /\ use_ckpt \in BOOLEAN


(* ------------------------- shared predicates --------------------------- *)
NetworkSource == is_url_download(input_path) \/ is_nequip_net_download(input_path)

Exited == pc \in {"returned", "raised"}

Loaders == {"ModelFromCheckpoint", "ModelFromPackage"}

LoaderCalls == Count(log, "ModelFromCheckpoint") + Count(log, "ModelFromPackage")

Before(a, b) == Index(log, a) < Index(log, b)

(* ------------------------------ claims --------------------------------- *)

\* C1: for a network source (URL or registry identifier) the temporary file
\* is gone from the disk once the scope of load_saved_model has been left,
\* by a return or by any failure, and nothing else on the disk has changed.
C1_TempFileRemoved ==
    (NetworkSource /\ Exited) =>
        /\ tmpfile.created
        /\ ~tmpfile.open
        /\ tmpfile.name \notin DOMAIN fs
        /\ fs = fs0

C1_Witness ==
    /\ NetworkSource
    /\ pc = "raised"
    /\ error.at = "ModelFromPackage"
    /\ tmpfile.created
    /\ tmpfile.name \notin DOMAIN fs

\* C2: an input with none of the three prefixes that names an existing file
\* is yielded as that very path, with no temporary file, no lookup and no
\* download, and the file is as it was at every point up to and after the
\* exit of the scope.
C2_LocalPassThrough ==
    (~NetworkSource /\ Exists(Path(input_path), fs0)) =>
        /\ ~tmpfile.created
        /\ Count(log, "lookup") = 0
        /\ Count(log, "get") = 0
        /\ fs = fs0
        /\ ("yield" \in Ops(log) => actual_input_path = Path(input_path))

C2_Witness ==
    /\ ~NetworkSource
    /\ Exists(Path(input_path), fs0)
    /\ pc = "returned"
    /\ actual_input_path = Path(input_path)
    /\ fs = fs0

\* the resolved path was checked and is not on the disk while the scope is open
MissingResolved ==
    /\ "exists" \in Ops(log)
    /\ ~Exited
    /\ ~Exists(actual_input_path, fs)

NamesBoth ==
    /\ Contains(error.msg, input_path)
    /\ Contains(error.msg, Str(actual_input_path))

NothingLoaded ==
    /\ Ops(log) \cap (Loaders \cup {"data_dict"}) = {}
    /\ model = NoModel
    /\ result = NoResult

\* C3 as stated: a resolved path that does not exist makes load_saved_model
\* fail with an error of the FileNotFoundError class that names the input and
\* the resolved path, before any loader or extraction routine runs.
C3_MissingFileNotFoundError ==
    MissingResolved =>
        /\ IsSubclass(error.class, "FileNotFoundError")
        /\ NamesBoth
        /\ NothingLoaded

\* C3 amended: a resolved path that does not exist makes load_saved_model
\* fail with a ValueError that names the input and the resolved path, before
\* any loader or extraction routine runs.
C3_MissingValueError ==
    MissingResolved =>
        /\ error.class = "ValueError"
        /\ error.at = "exists"
        /\ pc = "unwind"
        /\ NamesBoth
        /\ NothingLoaded

C3_Witness ==
    /\ MissingResolved
    /\ error.class = "ValueError"
    /\ input_path # Str(actual_input_path)
    /\ NamesBoth

\* C4: for a registry identifier there is never more than one lookup and one
\* download, the download comes after the lookup and asks for the URL the
\* lookup returned, and when the path is yielded exactly one lookup and one
\* download have been made and the download has finished.
C4_RegistryLookupThenDownload ==
    is_nequip_net_download(input_path) =>
        /\ Count(log, "lookup") <= 1
        /\ Count(log, "get") <= 1
        /\ "get" \in Ops(log) =>
              /\ "lookup" \in Ops(log)
              /\ Before("lookup", "get")
              /\ model_info.valid => log[Index(log, "get")].arg = model_info.download_url
        /\ "yield" \in Ops(log) =>
              /\ Count(log, "lookup") = 1
              /\ Count(log, "get") = 1
              /\ Count(log, "flush") = 1
              /\ Before("get", "flush")
              /\ Before("flush", "yield")
              /\ \A i \in DOMAIN log : log[i].op = "write" => i < Index(log, "flush")

C4_Witness ==
    /\ is_nequip_net_download(input_path)
    /\ pc = "exists"
    /\ model_info.valid
    /\ log[Index(log, "get")].arg = model_info.download_url
    /\ log[Index(log, "get")].arg # input_path

\* C5: for a URL input whose request succeeds, when the loop over the chunks
\* is over every byte of the body is in the file or its buffer and the
\* progress count is the body length, whatever total the header declared;
\* when the path is yielded the file has been flushed and holds exactly the
\* body, empty chunks adding nothing.
C5_UrlFullBodyBeforeYield ==
    is_url_download(input_path) =>
        /\ pc = "flush" =>
              /\ fs[tmpfile.name] \o tmpfile.buf = Flatten(body)
              /\ pbar.n = SumLen(body)
        /\ ("yield" \in Ops(log) /\ tmpfile.open) =>
              /\ Before("flush", "yield")
              /\ tmpfile.buf = <<>>
              /\ fs[tmpfile.name] = Flatten(body)
              /\ Len(fs[tmpfile.name]) = SumLen(body)
              /\ Str(actual_input_path) = tmpfile.name

C5_Witness ==
    /\ is_url_download(input_path)
    /\ pc = "exists"
    /\ \E i \in DOMAIN body : body[i] = <<>>
    /\ \E i \in DOMAIN body : body[i] # <<>>
    /\ fs[tmpfile.name] = Flatten(body)

\* C6: a resolved path that exists is given to exactly one loader, the
\* package loader if and only if its string ends with ".nequip.zip" and the
\* checkpoint loader otherwise.
C6_LoaderDispatch ==
    /\ LoaderCalls <= 1
    /\ pc \in {"select", "data", "exit", "returned"} => LoaderCalls = 1
    /\ ("exists" \in Ops(log) /\ error.at # "exists" /\ pc \notin {"override", "checkpoint", "package"})
          => LoaderCalls = 1
    /\ \A i \in DOMAIN log :
          /\ log[i].op \in Loaders => log[i].arg = Str(actual_input_path)
          /\ log[i].op = "ModelFromPackage" => EndsWith(Str(actual_input_path), PACKAGE_SUFFIX)
          /\ log[i].op = "ModelFromCheckpoint" => ~EndsWith(Str(actual_input_path), PACKAGE_SUFFIX)

C6_Witness ==
    /\ ~NetworkSource
    /\ pc = "select"
    /\ model.loader = "ModelFromPackage"
    /\ ~EndsWith(input_path, PACKAGE_SUFFIX)

FailedRequest == error.at \in {"lookup", "get", "raise_for_status"}

NothingDone ==
    /\ pc \in {"unwind", "raised"}
    /\ error.class # ""
    /\ Count(log, "lookup") <= 1
    /\ Count(log, "get") <= 1
    /\ "write" \notin Ops(log)
    /\ tmpfile.open => (fs[tmpfile.name] = <<>> /\ tmpfile.buf = <<>>)
    /\ "yield" \notin Ops(log)
    /\ NothingLoaded

C8_OverrideOnlyDuringCheckpoint ==
    /\ PersistentOnly(persistent_only) <=> pc = "checkpoint"
    /\ pc # "checkpoint" => persistent_only = <<>>
    /\ "ModelFromPackage" \in Ops(log) => "override" \notin Ops(log)
    /\ "override" \in Ops(log) => use_ckpt

C8_Witness ==
    /\ pc = "unwind"
    /\ error.at = "ModelFromCheckpoint"
    /\ "override" \in Ops(log)
    /\ ~PersistentOnly(persistent_only)

LoaderFormat == IF "ModelFromCheckpoint" \in Ops(log) THEN "checkpoint" ELSE "package"

\* C9: with return_data_dict the data is extracted by the routine of the
\* loader's format, on the resolved path, after the selection of the
\* sub-model and while the resolved file exists, and the pair is returned;
\* without it no extraction is made and the model alone is returned.
C9_DataDict ==
    /\ ~args.return_data_dict => "data_dict" \notin Ops(log)
    /\ Count(log, "data_dict") <= 1
    /\ "data_dict" \in Ops(log) =>
          /\ Before("select", "data_dict")
          /\ log[Index(log, "data_dict")].opt = LoaderFormat
          /\ log[Index(log, "data_dict")].arg = Str(actual_input_path)
          /\ \E i \in DOMAIN log : log[i].op \in Loaders /\ log[i].arg = log[Index(log, "data_dict")].arg
          /\ "exit" \notin Ops(log) => Exists(actual_input_path, fs)
    /\ pc \in {"exit", "returned"} =>
          IF args.return_data_dict
          THEN /\ result.kind = "pair"
               /\ result.model = model
               /\ model.kind = "GraphModel"
               /\ result.data = [format |-> LoaderFormat, path |-> Str(actual_input_path)]
          ELSE /\ result.kind = "model"
               /\ result.model = model
               /\ model.kind = "GraphModel"
               /\ result.data = NoData

C9_Witness ==
    /\ NetworkSource
    /\ args.return_data_dict
    /\ pc = "exit"
    /\ result.kind = "pair"
    /\ Exists(actual_input_path, fs)

\* C10: for a network source the resolved path is the temporary file, whose
\* name ends with ".nequip.zip" whatever the URL ends with, so the package
\* loader is the one that runs, the checkpoint loader never does and the
\* persistent-modifiers-only block is never entered.
C10_NetworkAlwaysPackage ==
    NetworkSource =>
        /\ "yield" \in Ops(log) =>
              /\ Str(actual_input_path) = tmpfile.name
              /\ EndsWith(Str(actual_input_path), PACKAGE_SUFFIX)
        /\ "ModelFromCheckpoint" \notin Ops(log)
        /\ "override" \notin Ops(log)
        /\ persistent_only = <<>>
        /\ pc \in {"select", "data", "exit", "returned"} => "ModelFromPackage" \in Ops(log)

C10_Witness ==
    /\ is_nequip_net_download(input_path)
    /\ pc = "select"
    /\ model.loader = "ModelFromPackage"
    /\ ~EndsWith(log[Index(log, "get")].arg, PACKAGE_SUFFIX)

====
